---- MODULE Spec2Model ----
(***************************************************************************)
(* The grading orchestration of dmoj/graders/standard.py (StandardGrader)  *)
(* and dmoj/graders/bridged.py (BridgedInteractiveGrader) as one state     *)
(* machine: construction of a grader, then a bounded number of grade(case) *)
(* calls.  The sandbox, the checker, the protocol adapter and the compiler *)
(* are external collaborators: what they return is drawn from small sets.  *)
(***************************************************************************)
EXTENDS Integers, Sequences, FiniteSets, TLC

\* ------------------------------------------------------------------ bounds

\* Largest point value of a case; checkers may report up to MaxPoints + 1.
MaxPoints == 2
\* Largest output_limit_length of a case; a submission writes up to MaxLimit + 1 bytes.
MaxLimit == 1
\* Number of grade calls made on one grader.
MaxCalls == 2

\* --------------------------------------------------------------- constants

\* contrib_modules: the registry of protocol adapters.
contrib_modules == {"default", "testlib"}
\* What the problem may configure as interactive.type ("unset": key absent).
HandlerTypes == {"unset", "default", "testlib", "nosuch"}

\* Failure bits the sandbox's populate_result may set from the post-mortem.
SandboxFlags == {"RTE", "TLE"}
\* Result.AC is the empty mask, Result.WA a failure bit.
Result_AC == {}
Result_WA == {"WA"}

Feedbacks == {"", "fb"}
SandboxFeedbacks == {"", "sandbox"}

\* A checker's or adapter's return value: a plain boolean, or a CheckerResult.
Bool(b) == [isbool |-> TRUE, passed |-> b, points |-> 0,
            feedback |-> "", extended_feedback |-> ""]
CheckerResult(passed, points, feedback, extended_feedback) ==
    [isbool |-> FALSE, passed |-> passed, points |-> points,
     feedback |-> feedback, extended_feedback |-> extended_feedback]
CheckerOutputs ==
    {Bool(b) : b \in BOOLEAN} \cup
    {CheckerResult(p, n, f, e) :
        p \in BOOLEAN, n \in 0..(MaxPoints + 1), f \in Feedbacks, e \in Feedbacks}
NoCheck == [isbool |-> TRUE, passed |-> FALSE, points |-> 0,
            feedback |-> "none", extended_feedback |-> "none"]

VARIABLES
    pc,            \* position of the judge thread
    raised,        \* exception that left the constructor or grade, or "none"
    config,        \* grader variant, problem and handler configuration
    case,          \* the TestCase of the current grade call
    result,        \* the Result of the current grade call
    check,         \* value returned by check_result, then normalised
    current_proc,  \* submission process: "none", "running", "exited"
    interactor,    \* interactor process: "none", "running", "exited"
    interactor_exit, \* how the interactor ended
    exit_order,    \* processes of this call in the order they terminated
    open_fds,      \* pipe descriptors the judge process holds open
    answer_file,   \* temporary answer file: "none", "exists", "deleted"
    written,       \* bytes the submission writes to its stdout in this call
    err_written,   \* bytes the submission writes to its stderr in this call
    error,         \* stderr bytes _interact_with_process returned
    ole_marks,     \* times the submission process was marked output-limit-exceeded
    interactor_time_limit, \* self._interactor_time_limit
    fsize,         \* self.binary.fsize, the output-size ceiling of the binary
    adapter_out,   \* parse_return_code in this call: "none", "IE", "returned"
    adapter_result, \* what parse_return_code returned
    checker_raised, \* what the checker callable raised: "none", "decode", "other"
    judgment,      \* terminal judgment OR'd into the flags: "none", "AC", "WA"
    checker_calls, \* invocations of the checker callable in this call
    checker_seen,  \* the output the checker was given and what it returned
    populated,     \* the result as populate_result left it in this call
    prev_fsize,    \* binary.fsize as it was before the latest launch
    free_calls,    \* calls of case.free_data() in this call
    calls          \* grade calls begun on this grader

vars == <<pc, raised, config, case, result, check, current_proc, interactor,
          interactor_exit, exit_order, open_fds, answer_file, written, ole_marks,
          fsize, adapter_out, adapter_result, checker_raised, judgment,
          checker_calls, free_calls, calls, err_written, error, checker_seen,
          populated, prev_fsize, interactor_time_limit>>

procvars == <<current_proc, interactor, interactor_exit, exit_order, written,
              ole_marks, err_written, error>>
ghostvars == <<adapter_out, adapter_result, checker_raised, judgment,
               checker_calls, free_calls, checker_seen, populated, prev_fsize>>

\* ------------------------------------------------------------------- Init

\* No checker call yet in this grade.
NotSeen == [input |-> 0, out |-> NoCheck]
\* Lengths of what a submission writes to its stderr.
ErrLens == {0, 1}

NoCase == [points |-> 0, run_on_error |-> FALSE, output_limit_length |-> 0]
\* Result(case): result_flag 0, no points, empty feedback, empty output.
NewResult == [result_flag |-> {}, points |-> 0, feedback |-> "",
              extended_feedback |-> "", proc_output |-> 0]

\* executor.fsize as the executor sets it: below or above the 1 MiB floor.
OrigFsizes == {0, 2097152}

\* handler_data.preprocessing_time when the handler configures none.
None == -1
\* handler_data.preprocessing_time: unset, zero, or a configured allowance.
PreprocessingTimes == {None, 0, 1}
\* problem.time_limit, in seconds.
TimeLimits == {1, 2}

StandardConfigs ==
    {[kind |-> "standard", sub_compiles |-> s, int_compiles |-> TRUE,
      type |-> "unset", memfd_output |-> m, orig_fsize |-> f,
      preprocessing_time |-> None, time_limit |-> 1] :
        s \in BOOLEAN, m \in BOOLEAN, f \in OrigFsizes}
InteractiveConfigs ==
    {[kind |-> "interactive", sub_compiles |-> s, int_compiles |-> i,
      type |-> t, memfd_output |-> TRUE, orig_fsize |-> 0,
      preprocessing_time |-> a, time_limit |-> tl] :
        s \in BOOLEAN, i \in BOOLEAN, t \in HandlerTypes,
        a \in PreprocessingTimes, tl \in TimeLimits}

Init ==
    /\ pc = "new"
    /\ raised = "none"
    /\ config \in StandardConfigs \cup InteractiveConfigs
    /\ case = NoCase
    /\ result = NewResult
    /\ check = NoCheck
    /\ current_proc = "none"
    /\ interactor = "none"
    /\ interactor_exit = "none"
    /\ exit_order = <<>>
    /\ open_fds = {}
    /\ answer_file = "none"
    /\ written = 0
    /\ err_written = 0
    /\ error = 0
    /\ ole_marks = 0
    /\ checker_seen = NotSeen
    /\ populated = NewResult
    /\ prev_fsize = config.orig_fsize
    /\ fsize = config.orig_fsize
    /\ interactor_time_limit = 0
    /\ adapter_out = "none"
    /\ adapter_result = NoCheck
    /\ checker_raised = "none"
    /\ judgment = "none"
    /\ checker_calls = 0
    /\ free_calls = 0
    /\ calls = 0

\* ----------------------------------------------------------- construction

\* InternalError, by its message.
IE_interactor_compile == "InternalError: interactor failed compiling"
IE_contrib == "InternalError: not a valid contrib module"
IE_adapter == "InternalError: interactor"
InternalErrors == {IE_interactor_compile, IE_contrib, IE_adapter}

\* self.handler_data.get('type', 'default')
contrib_type == IF config.type = "unset" THEN "default" ELSE config.type

\* BaseGrader.__init__ stores its arguments and sets self.binary =
\* self._generate_binary(); the Executor built there compiles the submission
\* and raises CompileError when it does not build.
BaseGrader_init ==
    /\ pc = "new"
    /\ IF ~config.sub_compiles
         THEN /\ pc' = "raised"
              /\ raised' = "CompileError"
         ELSE /\ pc' = IF config.kind = "interactive" THEN "init_interactor" ELSE "idle"
              /\ UNCHANGED raised
    /\ UNCHANGED <<config, case, result, check, procvars, open_fds, answer_file,
                   fsize, ghostvars, calls,
                   interactor_time_limit>>

\* The exception that leaves __init__ when _generate_interactor_binary raises
\* CompileError: InternalError('interactor failed compiling') from it.
\* (Rethrow_plain: the faulty variant that lets CompileError through.)
Rethrow_plain == "CompileError"
Rethrow == IE_interactor_compile

\* __init__: handler_data, then the interactor is compiled inside try/except.
\* handler_data.files is taken to be a string or a list, as the problem loader
\* provides it; _generate_interactor_binary's outcome is the compiler's.
Bridged_init_interactor ==
    /\ pc = "init_interactor"
    /\ IF ~config.int_compiles
         THEN /\ pc' = "raised"
              /\ raised' = Rethrow
         ELSE /\ pc' = "init_contrib"
              /\ UNCHANGED raised
    /\ UNCHANGED <<config, case, result, check, procvars, open_fds, answer_file,
                   fsize, ghostvars, calls,
                   interactor_time_limit>>

\* The registry test of __init__.
\* (ValidContrib_unchecked: the faulty variant with the test left out.)
ValidContrib_unchecked == TRUE
ValidContrib == contrib_type \in contrib_modules

\* __init__: contrib_type is looked up in contrib_modules.
Bridged_init_contrib ==
    /\ pc = "init_contrib"
    /\ IF ~ValidContrib
         THEN /\ pc' = "raised"
              /\ raised' = IE_contrib
         ELSE /\ pc' = "idle"
              /\ UNCHANGED raised
    /\ UNCHANGED <<config, case, result, check, procvars, open_fds, answer_file,
                   fsize, ghostvars, calls,
                   interactor_time_limit>>

\* ------------------------------------------------------------------ grade

\* The output limits of the cases: small ones, which the submissions of the
\* model can exceed, and one large enough to outgrow the floor of the ceiling.
OutputLimits == (0..MaxLimit) \cup {4194304}

Cases ==
    {[points |-> p, run_on_error |-> r, output_limit_length |-> l] :
        p \in 0..MaxPoints, r \in BOOLEAN, l \in OutputLimits}

\* The cases a grader of the given kind is handed.  The interactive grader
\* has no checker and reads no output limit, so one value of run_on_error
\* and of output_limit_length stands for all of them there.
CasesOf(kind) ==
    IF kind = "interactive"
      THEN {c \in Cases : ~c.run_on_error /\ c.output_limit_length = 0}
      ELSE Cases

\* grade: result = Result(case); input_file = case.input_data_io().
\* One case at a time: the previous call has returned.
grade_begin ==
    /\ pc \in {"idle", "returned"}
    /\ calls < MaxCalls
    /\ calls' = calls + 1
    /\ case' \in CasesOf(config.kind)
    /\ result' = NewResult
    /\ check' = NoCheck
    /\ current_proc' = "none"
    /\ interactor' = "none"
    /\ interactor_exit' = "none"
    /\ exit_order' = <<>>
    /\ written' = 0
    /\ err_written' = 0
    /\ error' = 0
    /\ checker_seen' = NotSeen
    /\ populated' = NewResult
    /\ ole_marks' = 0
    /\ answer_file' = "none"
    /\ adapter_out' = "none"
    /\ adapter_result' = NoCheck
    /\ checker_raised' = "none"
    /\ judgment' = "none"
    /\ checker_calls' = 0
    /\ free_calls' = 0
    /\ pc' = "launch"
    /\ UNCHANGED <<raised, config, open_fds, fsize, prev_fsize,
                   interactor_time_limit>>

Max(a, b) == IF a >= b THEN a ELSE b
\* The slack added to output_limit_length and the floor of the ceiling.
FsizeSlack == 1024
FsizeFloor == 1048576

\* self._orig_fsize: the footprint recorded when the binary was generated.
\* (FsizeBase_carried: the faulty variant starting from the current ceiling.)
FsizeBase_carried == fsize
FsizeBase == config.orig_fsize

\* max(self._orig_fsize, case.config.output_limit_length + 1024, 1048576)
LaunchFsize(orig, limit) == Max(orig, Max(limit + FsizeSlack, FsizeFloor))

\* StandardGrader._launch_process: the capture buffers, the ceiling, the launch.
Std_launch_process ==
    /\ pc = "launch"
    /\ config.kind = "standard"
    /\ fsize' = IF config.memfd_output
                  THEN LaunchFsize(FsizeBase, case.output_limit_length)
                  ELSE fsize
    /\ prev_fsize' = fsize
    /\ current_proc' = "running"
    /\ written' \in 0..(MaxLimit + 1)
    /\ err_written' \in ErrLens
    /\ pc' = "interact"
    /\ UNCHANGED <<raised, config, case, result, check, interactor, interactor_exit,
                   exit_order, ole_marks, error, open_fds, answer_file,
                   adapter_out, adapter_result, checker_raised, judgment,
                   checker_calls, free_calls, checker_seen, populated, calls,
                   interactor_time_limit>>

\* The sandbox ends the submission process (it exits, crashes or is killed
\* at a limit).
SubmissionExits ==
    /\ current_proc = "running"
    /\ current_proc' = "exited"
    /\ exit_order' = Append(exit_order, "submission")
    /\ UNCHANGED <<pc, raised, config, case, result, check, interactor,
                   interactor_exit, written, ole_marks, err_written, error,
                   open_fds, answer_file, fsize, ghostvars, calls,
                   interactor_time_limit>>

\* len(result.proc_output) > case.config.output_limit_length
\* (MemfdOle_never: the faulty variant that never marks.)
MemfdOle_never(len, limit) == FALSE
MemfdOle(len, limit) == len > limit

\* What the memory-backed path captures of w bytes of stdout and e bytes of
\* stderr: all of both, and one mark when stdout is longer than the limit.
MemfdCapture(w, e, limit) ==
    [proc_output |-> w, error |-> e,
     marks |-> IF MemfdOle(w, limit) THEN 1 ELSE 0]

\* StandardGrader._interact_with_process, memory-backed capture: wait, take
\* the whole stdout, mark the process when it is longer than the limit.
Std_interact_memfd ==
    /\ pc = "interact"
    /\ config.kind = "standard"
    /\ config.memfd_output
    /\ current_proc = "exited"
    /\ LET cap == MemfdCapture(written, err_written, case.output_limit_length) IN
          /\ result' = [result EXCEPT !.proc_output = cap.proc_output]
          /\ error' = cap.error
          /\ ole_marks' = ole_marks + cap.marks
    /\ pc' = "populate"
    /\ UNCHANGED <<raised, config, case, check, current_proc, interactor,
                   interactor_exit, exit_order, written, err_written, open_fds,
                   answer_file, fsize, ghostvars, calls,
                   interactor_time_limit>>

\* communicate, as it raises OutputLimitExceeded, leaves the process marked
\* output-limit-exceeded (the breach is a flag on the result on both paths).
CommunicateOle(n) == n + 1

\* What the pipe path captures: when communicate raises OutputLimitExceeded
\* the assignment of line 131 never happens, so result.proc_output keeps
\* its former value, and error = b''; otherwise all of both streams.
PipeCapture(w, e, limit, former) ==
    IF w > limit
      THEN [proc_output |-> former, error |-> 0, marks |-> CommunicateOle(0)]
      ELSE [proc_output |-> w, error |-> e, marks |-> 0]

\* StandardGrader._interact_with_process, pipes: communicate reads to the end
\* of the streams, or raises OutputLimitExceeded once more than outlimit
\* bytes came; then the process is killed and, in both cases, waited for.
Std_interact_pipe ==
    /\ pc = "interact"
    /\ config.kind = "standard"
    /\ ~config.memfd_output
    /\ IF written > case.output_limit_length
         THEN /\ current_proc' = "exited"
              /\ exit_order' = IF current_proc = "running"
                                 THEN Append(exit_order, "submission")
                                 ELSE exit_order
         ELSE /\ current_proc = "exited"
              /\ UNCHANGED <<current_proc, exit_order>>
    /\ LET cap == PipeCapture(written, err_written, case.output_limit_length,
                              result.proc_output) IN
          /\ result' = [result EXCEPT !.proc_output = cap.proc_output]
          /\ error' = cap.error
          /\ ole_marks' = ole_marks + cap.marks
    /\ pc' = "populate"
    /\ UNCHANGED <<raised, config, case, check, interactor, interactor_exit,
                   written, err_written, open_fds, answer_file, fsize, ghostvars,
                   calls,
                   interactor_time_limit>>

\* What binary.populate_result may report: any failure bits of the sandbox,
\* and the output-limit bit exactly when the process was marked.
SandboxReports ==
    {fl \cup (IF ole_marks > 0 THEN {"OLE"} ELSE {}) : fl \in SUBSET SandboxFlags}

\* grade: process = self._current_proc; self.populate_result(error, result, process).
populate_result ==
    /\ pc = "populate"
    /\ \E fl \in SandboxReports, fb \in SandboxFeedbacks :
          result' = [result EXCEPT !.result_flag = fl, !.feedback = fb]
    /\ populated' = result'
    /\ pc' = "check"
    /\ UNCHANGED <<raised, config, case, check, procvars, open_fds, answer_file,
                   fsize, adapter_out, adapter_result, checker_raised, judgment,
                   checker_calls, free_calls, checker_seen, prev_fsize, calls,
                   interactor_time_limit>>

\* The gate of StandardGrader.check_result: the checker runs when no flag is
\* set or when it declares run_on_error.
\* (RunChecker_always: the faulty variant without the gate.)
RunChecker_always == TRUE
RunChecker == result.result_flag = {} \/ case.run_on_error

\* What check_result returns when the checker raises UnicodeDecodeError.
\* (InvalidUnicode_plain: the faulty variant losing the feedback.)
InvalidUnicode_plain == Bool(FALSE)
InvalidUnicode == CheckerResult(FALSE, 0, "invalid unicode", "")

\* The first argument of the checker call: result.proc_output.
CheckerInput == result.proc_output

\* StandardGrader.check_result.
Std_check_result ==
    /\ pc = "check"
    /\ config.kind = "standard"
    /\ IF RunChecker
         THEN /\ checker_calls' = checker_calls + 1
              /\ \/ \E out \in CheckerOutputs :
                       /\ check' = out
                       /\ checker_seen' = [input |-> CheckerInput, out |-> out]
                       /\ pc' = "merge"
                       /\ UNCHANGED <<raised, checker_raised>>
                 \/ /\ checker_raised' = "decode"
                    /\ check' = InvalidUnicode
                    /\ checker_seen' = [input |-> CheckerInput, out |-> NoCheck]
                    /\ pc' = "merge"
                    /\ UNCHANGED raised
                 \/ /\ checker_raised' = "other"
                    /\ checker_seen' = [input |-> CheckerInput, out |-> NoCheck]
                    /\ pc' = "raised"
                    /\ raised' = "CheckerError"
                    /\ UNCHANGED check
         ELSE /\ check' = Bool(FALSE)
              /\ pc' = "merge"
              /\ UNCHANGED <<raised, checker_raised, checker_calls, checker_seen>>
    /\ UNCHANGED <<config, case, result, procvars, open_fds, answer_file, fsize,
                   adapter_out, adapter_result, judgment, free_calls, populated,
                   prev_fsize, calls,
                   interactor_time_limit>>

\* grade: a boolean becomes CheckerResult(check, case.points if check else 0.0).
Normalize_nopoints(c) ==
    IF c.isbool THEN CheckerResult(c.passed, 0, "", "") ELSE c
Normalize(c) ==
    IF c.isbool
      THEN CheckerResult(c.passed, IF c.passed THEN case.points ELSE 0, "", "")
      ELSE c

\* a or b on strings: b when a is empty.
\* (Or_first: the faulty variant that always takes a.)
Or_first(a, b) == a
Or(a, b) == IF a # "" THEN a ELSE b

\* [Result.WA, Result.AC][check.passed]: the judgment is picked by the
\* checker outcome alone.
\* (Judgment_unflagged: the variant that also asks for a flag-free result.)
Judgment_unflagged(passed, flags) == IF passed /\ flags = {} THEN "AC" ELSE "WA"
Judgment(passed, flags) == IF passed THEN "AC" ELSE "WA"
JudgmentMask(j) == IF j = "AC" THEN Result_AC ELSE Result_WA

\* grade: the normalised check is merged into the result.
grade_merge ==
    /\ pc = "merge"
    /\ LET c == Normalize(check) IN
          /\ check' = c
          /\ result' = [result EXCEPT
                  !.result_flag = @ \cup JudgmentMask(Judgment(c.passed, @)),
                  !.points = c.points,
                  !.feedback = Or(c.feedback, @),
                  !.extended_feedback = Or(c.extended_feedback, @)]
          /\ judgment' = Judgment(c.passed, result.result_flag)
    /\ pc' = "free"
    /\ UNCHANGED <<raised, config, case, procvars, open_fds, answer_file, fsize,
                   adapter_out, adapter_result, checker_raised, checker_calls,
                   checker_seen, populated, prev_fsize, free_calls, calls,
                   interactor_time_limit>>

\* case.free_data(), as a count of the calls made.
\* (free_data_skipped: the faulty variant returning without the call.)
free_data_skipped(n) == n
free_data(n) == n + 1

\* grade: case.free_data(); return result.
grade_return ==
    /\ pc = "free"
    /\ free_calls' = free_data(free_calls)
    /\ pc' = "returned"
    /\ UNCHANGED <<raised, config, case, result, check, procvars, open_fds,
                   answer_file, fsize, adapter_out, adapter_result, checker_raised,
                   judgment, checker_calls, checker_seen, populated, prev_fsize,
                   calls,
                   interactor_time_limit>>

\* ------------------------------------------------- interactive grade

\* The four descriptors of the two os.pipe() calls of _launch_process.
SubmissionEnds == {"submission_stdin_pipe", "submission_stdout_pipe"}
InteractorEnds == {"interactor_stdin_pipe", "interactor_stdout_pipe"}
PipeFds == SubmissionEnds \cup InteractorEnds

\* BridgedInteractiveGrader._launch_process: two pipes, the submission is
\* launched on one end of each, then those two ends are closed.  When
\* binary.launch raises, the function is left with all four ends open.
Bridged_launch_process ==
    /\ pc = "launch"
    /\ config.kind = "interactive"
    /\ \/ /\ current_proc' = "running"
          /\ err_written' \in ErrLens
          /\ open_fds' = (open_fds \cup PipeFds) \ SubmissionEnds
          /\ pc' = "interact"
          /\ UNCHANGED raised
       \/ /\ open_fds' = open_fds \cup PipeFds
          /\ pc' = "raised"
          /\ raised' = "LaunchError"
          /\ UNCHANGED <<current_proc, err_written>>
    /\ UNCHANGED <<config, case, result, check, interactor, interactor_exit,
                   exit_order, written, ole_marks, error, answer_file, fsize,
                   ghostvars, calls,
                   interactor_time_limit>>

\* What leaving the context of mktemp(judge_output) does to the file: the
\* temporary file is closed, which deletes it.
mktemp_exit(f) == "deleted"

\* The with statement around the interaction: an exception raised inside
\* the block leaves through the context manager.
\* (ExceptionInWith_unguarded: the faulty variant where it does not.)
ExceptionInWith_unguarded(f) == f
ExceptionInWith(f) == mktemp_exit(f)

\* An exception e raised inside the with block of _interact_with_process.
RaiseInWith(e) ==
    /\ pc' = "raised"
    /\ raised' = e
    /\ answer_file' = ExceptionInWith(answer_file)

\* _interact_with_process up to the with statement: the ceilings and the
\* argument template are computed, mktemp writes the answer file.
\* The allowance used when preprocessing_time is falsy.
DefaultPreprocessing == 2

\* a or b on numbers: b when a is None or 0.
OrDefault_none(a, b) == IF a = None THEN b ELSE a
OrDefault(a, b) == IF a = None \/ a = 0 THEN b ELSE a

\* (self.handler_data.preprocessing_time or 2) + self.problem.time_limit
InteractorTimeLimit(preprocessing_time, time_limit) ==
    OrDefault(preprocessing_time, DefaultPreprocessing) + time_limit

\* self._interactor_time_limit is computed, then the with block is entered.
Bridged_interact_mktemp ==
    /\ pc = "interact"
    /\ config.kind = "interactive"
    /\ interactor_time_limit' =
          InteractorTimeLimit(config.preprocessing_time, config.time_limit)
    /\ \/ /\ answer_file' = "exists"
          /\ pc' = "to_path"
          /\ UNCHANGED raised
       \/ /\ pc' = "raised"
          /\ raised' = "OSError"
          /\ UNCHANGED answer_file
    /\ UNCHANGED <<config, case, result, check, procvars, open_fds, fsize,
                   ghostvars, calls>>

\* input_path = case.input_data_io().to_path()
Bridged_interact_to_path ==
    /\ pc = "to_path"
    /\ \/ /\ pc' = "format"
          /\ UNCHANGED <<raised, answer_file>>
       \/ RaiseInWith("OSError")
    /\ UNCHANGED <<config, case, result, check, procvars, open_fds, fsize,
                   ghostvars, calls,
                   interactor_time_limit>>

\* interactor_args = shlex.split(args_format_string.format(...))
Bridged_interact_format ==
    /\ pc = "format"
    /\ \/ /\ pc' = "launch_interactor"
          /\ UNCHANGED <<raised, answer_file>>
       \/ RaiseInWith("FormatError")
    /\ UNCHANGED <<config, case, result, check, procvars, open_fds, fsize,
                   ghostvars, calls,
                   interactor_time_limit>>

\* self._interactor = self.interactor_binary.launch(...)
Bridged_interact_launch ==
    /\ pc = "launch_interactor"
    /\ \/ /\ interactor' = "running"
          /\ pc' = "close"
          /\ UNCHANGED <<raised, answer_file>>
       \/ /\ RaiseInWith("LaunchError")
          /\ UNCHANGED interactor
    /\ UNCHANGED <<config, case, result, check, current_proc, interactor_exit,
                   exit_order, written, ole_marks, err_written, error, open_fds,
                   fsize, ghostvars, calls,
                   interactor_time_limit>>

\* The descriptors left once both interactor-side ends are closed.
\* (CloseInteractorEnds_skipped: the faulty variant that closes nothing.)
CloseInteractorEnds_skipped(fds) == fds
CloseInteractorEnds(fds) == fds \ InteractorEnds

\* os.close(self._interactor_stdin_pipe); os.close(self._interactor_stdout_pipe)
Bridged_interact_close ==
    /\ pc = "close"
    /\ \/ /\ open_fds' = CloseInteractorEnds(open_fds)
          /\ pc' = "wait_submission"
          /\ UNCHANGED <<raised, answer_file>>
       \/ /\ \E closed \in {{}, {"interactor_stdin_pipe"}} :
                open_fds' = open_fds \ closed
          /\ RaiseInWith("OSError")
    /\ UNCHANGED <<config, case, result, check, procvars, fsize, ghostvars,
                   calls,
                   interactor_time_limit>>

\* The sandbox ends the interactor: it exits by itself, crashes, or is
\* killed at its own time ceiling.
InteractorStatuses == {"exited", "crashed", "killed_tle"}

InteractorExits ==
    /\ interactor = "running"
    /\ interactor' = "exited"
    /\ interactor_exit' \in InteractorStatuses
    /\ exit_order' = Append(exit_order, "interactor")
    /\ UNCHANGED <<pc, raised, config, case, result, check, current_proc,
                   written, ole_marks, err_written, error, open_fds, answer_file,
                   fsize, ghostvars, calls,
                   interactor_time_limit>>

\* process.wait() returns once the process has terminated.
\* (Waited_nonblocking: the faulty variant that does not block.)
Waited_nonblocking(p) == TRUE
Waited(p) == p = "exited"

\* self._current_proc.wait()
Bridged_wait_submission ==
    /\ pc = "wait_submission"
    /\ \/ /\ Waited(current_proc)
          /\ pc' = "wait_interactor"
          /\ UNCHANGED <<raised, answer_file>>
       \/ RaiseInWith("OSError")
    /\ UNCHANGED <<config, case, result, check, procvars, open_fds, fsize,
                   ghostvars, calls,
                   interactor_time_limit>>

\* self._interactor.wait()
Bridged_wait_interactor ==
    /\ pc = "wait_interactor"
    /\ \/ /\ Waited(interactor)
          /\ pc' = "read_stderr"
          /\ UNCHANGED <<raised, answer_file>>
       \/ RaiseInWith("OSError")
    /\ UNCHANGED <<config, case, result, check, procvars, open_fds, fsize,
                   ghostvars, calls,
                   interactor_time_limit>>

\* return self._current_proc.stderr.read(), leaving the with block.
Bridged_interact_return ==
    /\ pc = "read_stderr"
    /\ \/ /\ answer_file' = mktemp_exit(answer_file)
          /\ error' = err_written
          /\ pc' = "populate"
          /\ UNCHANGED raised
       \/ /\ RaiseInWith("OSError")
          /\ UNCHANGED error
    /\ UNCHANGED <<config, case, result, check, current_proc, interactor,
                   interactor_exit, exit_order, written, ole_marks, err_written,
                   open_fds, fsize, ghostvars, calls,
                   interactor_time_limit>>

\* What ContribModule.parse_return_code may do with the interactor's exit
\* status and stderr: raise InternalError, or return a CheckerOutput.  An
\* interactor that crashed or was killed at its ceiling is an InternalError.
parse_return_code(status) ==
    IF status \in {"crashed", "killed_tle"}
      THEN {"IE"}
      ELSE {"IE", "returned"}

\* check_result parses the interactor's return code first, whatever flags
\* the submission's result has.
\* (ParseFirst_flags: the faulty variant that looks at the flags first.)
ParseFirst_flags == result.result_flag = {}
ParseFirst == TRUE

\* (not result.result_flag) and parsed_result
\* (AndFlags_ignored: the faulty variant returning parsed_result alone.)
AndFlags_ignored(flags, parsed) == parsed
AndFlags(flags, parsed) == IF flags # {} THEN Bool(FALSE) ELSE parsed

\* BridgedInteractiveGrader.check_result.
Bridged_check_result ==
    /\ pc = "check"
    /\ config.kind = "interactive"
    /\ IF ParseFirst
         THEN \E how \in parse_return_code(interactor_exit) :
                 \/ /\ how = "IE"
                    /\ adapter_out' = "IE"
                    /\ pc' = "raised"
                    /\ raised' = IE_adapter
                    /\ UNCHANGED <<check, adapter_result>>
                 \/ /\ how = "returned"
                    /\ adapter_out' = "returned"
                    /\ adapter_result' \in CheckerOutputs
                    /\ check' = AndFlags(result.result_flag, adapter_result')
                    /\ pc' = "merge"
                    /\ UNCHANGED raised
         ELSE /\ check' = Bool(FALSE)
              /\ pc' = "merge"
              /\ UNCHANGED <<raised, adapter_out, adapter_result>>
    /\ UNCHANGED <<config, case, result, procvars, open_fds, answer_file, fsize,
                   checker_raised, judgment, checker_calls, checker_seen,
                   populated, prev_fsize, free_calls, calls,
                   interactor_time_limit>>

Next ==
    \/ BaseGrader_init
    \/ Bridged_init_interactor
    \/ Bridged_init_contrib
    \/ grade_begin
    \/ Std_launch_process
    \/ SubmissionExits
    \/ Std_interact_memfd
    \/ Std_interact_pipe
    \/ Bridged_launch_process
    \/ Bridged_interact_mktemp
    \/ Bridged_interact_to_path
    \/ Bridged_interact_format
    \/ Bridged_interact_launch
    \/ Bridged_interact_close
    \/ InteractorExits
    \/ Bridged_wait_submission
    \/ Bridged_wait_interactor
    \/ Bridged_interact_return
    \/ populate_result
    \/ Std_check_result
    \/ Bridged_check_result
    \/ grade_merge
    \/ grade_return

Spec == Init /\ [][Next]_vars

\* ------------------------------------------------------------- properties

\* The failure flags populate_result left on the result: the sandbox never
\* sets WA, which only grade's merge adds.
SubmissionFlags == result.result_flag \ Result_WA
AfterCheck == pc \in {"merge", "free", "returned"}
Interactive == config.kind = "interactive"
Standard == config.kind = "standard"

\* C1: in a standard grade whose result carries a failure flag after
\* populate_result and whose checker lacks run_on_error, the checker is never
\* invoked, and the returned result has 0 points and the WA judgment.
C1_SkippedCheckerFails ==
    (Standard /\ SubmissionFlags # {} /\ ~case.run_on_error) =>
        /\ checker_calls = 0
        /\ pc # "raised"
        /\ pc = "returned" =>
              /\ result.points = 0
              /\ judgment = "WA"
              /\ "WA" \in result.result_flag
C1_Witness ==
    /\ Standard /\ pc = "returned"
    /\ SubmissionFlags # {} /\ ~case.run_on_error
    /\ case.points > 0

\* C2: in an interactive grade the adapter is consulted before the
\* submission's flags: every grade that gets past check_result has asked the
\* adapter, and when the adapter raised InternalError the grade has raised it
\* and merged no verdict, whatever flags the submission's result has.
C2_AdapterBeforeFlags ==
    Interactive =>
        /\ AfterCheck => adapter_out = "returned"
        /\ adapter_out = "IE" =>
              /\ pc = "raised"
              /\ raised = IE_adapter
              /\ judgment = "none"
              /\ "WA" \notin result.result_flag
C2_Witness ==
    /\ Interactive
    /\ adapter_out = "IE"
    /\ interactor_exit = "killed_tle"
    /\ "TLE" \in result.result_flag
    /\ pc = "raised"

\* C3: an interactive grade reads the submission's stderr, populates the
\* result, computes the verdict and returns only after both the submission
\* and the interactor have terminated, in whichever order they did.
C3_BothTerminated ==
    (Interactive /\ (AfterCheck \/ pc \in {"read_stderr", "populate", "check"})) =>
        /\ current_proc = "exited"
        /\ interactor = "exited"
C3_Witness ==
    /\ Interactive /\ pc = "returned"
    /\ exit_order = <<"interactor", "submission">>

\* C4: when an interactive grade has returned or raised, the judge process
\* holds none of the four pipe descriptors.
C4_PipesClosedOnEveryExit ==
    (Interactive /\ pc \in {"returned", "raised"}) => open_fds = {}

\* C5: the temporary answer file exists only while _interact_with_process is
\* inside its with block: once it has returned or raised, the file is gone.
InsideWith == pc \in {"to_path", "format", "launch_interactor", "close",
                      "wait_submission", "wait_interactor", "read_stderr"}
C5_AnswerFileReleased ==
    answer_file = "exists" => (Interactive /\ InsideWith)
C5_Witness ==
    /\ Interactive /\ pc = "raised"
    /\ answer_file = "deleted"
    /\ interactor = "running"

\* C6: the returned result has points <= case.points, and 0 points whenever
\* the checker outcome did not pass.
C6_PointsBounded ==
    pc = "returned" =>
        /\ result.points <= case.points
        /\ ~check.passed => result.points = 0

\* The points of a checker output once normalised.
PointsOf(c) == IF c.isbool THEN (IF c.passed THEN case.points ELSE 0) ELSE c.points

\* C7 as stated: pass/fail is (no failure flag) and (adapter passed), and
\* the points and the feedback are the adapter's, for every combination.
C7_AdapterResultAlways ==
    (Interactive /\ pc = "returned") =>
        /\ judgment = "AC" <=> (SubmissionFlags = {} /\ adapter_result.passed)
        /\ result.points = PointsOf(adapter_result)
        /\ result.feedback = adapter_result.feedback

\* C7, amended: pass/fail is (no failure flag) and (adapter passed).  With
\* no failure flag the points are the adapter's and the feedback is the
\* adapter's when it is not empty, else the one populate_result set; with a
\* failure flag the points are 0 and the feedback stays as populate_result
\* set it.
C7_AdapterResultUnlessFailed ==
    (Interactive /\ pc = "returned") =>
        /\ adapter_out = "returned"
        /\ judgment = "AC" <=> (SubmissionFlags = {} /\ adapter_result.passed)
        /\ SubmissionFlags = {} =>
              /\ result.points = PointsOf(adapter_result)
              /\ adapter_result.feedback # "" =>
                    result.feedback = adapter_result.feedback
              /\ adapter_result.feedback = "" =>
                    result.feedback \in SandboxFeedbacks
        /\ SubmissionFlags # {} =>
              /\ result.points = 0
              /\ result.feedback \in SandboxFeedbacks
              /\ result.extended_feedback = ""
C7_Witness ==
    /\ Interactive /\ pc = "returned"
    /\ SubmissionFlags # {}
    /\ adapter_result.passed
    /\ adapter_result.points > 0
    /\ adapter_result.feedback # ""

NotConstructed == pc \in {"new", "init_interactor", "init_contrib", "raised"}
NothingLaunched ==
    /\ calls = 0
    /\ current_proc = "none"
    /\ interactor = "none"

\* C8 as stated: with an adapter name outside the registry, construction
\* always raises an internal error; no grader exists, nothing is launched.
C8_UnknownAdapterAlwaysIE ==
    (Interactive /\ contrib_type \notin contrib_modules) =>
        /\ NotConstructed
        /\ NothingLaunched
        /\ pc = "raised" => raised \in InternalErrors

\* C8, amended: with an adapter name outside the registry, construction
\* never completes and nothing is launched or graded; it raises an internal
\* error whenever the submission itself compiled, and the submission's own
\* compile error otherwise.
C8_UnknownAdapterNeverConstructed ==
    (Interactive /\ contrib_type \notin contrib_modules) =>
        /\ NotConstructed
        /\ NothingLaunched
        /\ pc = "raised" =>
              IF config.sub_compiles
                THEN raised \in InternalErrors
                ELSE raised = "CompileError"
        /\ (config.sub_compiles /\ config.int_compiles) =>
              pc \in {"new", "init_interactor", "init_contrib"} \/ raised = IE_contrib
C8_Witness ==
    /\ Interactive
    /\ config.type = "nosuch"
    /\ pc = "raised"
    /\ raised = IE_contrib

\* C9: an interactor that fails to compile makes construction raise the
\* internal error and never a compile error; a submission that fails to
\* compile raises the compile error and never that internal error.
C9_InteractorCompileIsIE ==
    (Interactive /\ pc = "raised" /\ calls = 0) =>
        /\ raised = "CompileError" <=> ~config.sub_compiles
        /\ raised = IE_interactor_compile <=>
              (config.sub_compiles /\ ~config.int_compiles)
C9_Witness ==
    /\ Interactive /\ pc = "raised"
    /\ raised = IE_interactor_compile
    /\ contrib_type \in contrib_modules

\* C10: when the checker raises a decoding fault, a standard grade goes on
\* without raising and returns a WA result with 0 points and the feedback
\* "invalid unicode", having called case.free_data().
C10_InvalidUnicode ==
    (Standard /\ checker_raised = "decode") =>
        /\ AfterCheck
        /\ raised = "none"
        /\ pc \in {"free", "returned"} =>
              /\ judgment = "WA"
              /\ "WA" \in result.result_flag
              /\ result.points = 0
              /\ result.feedback = "invalid unicode"
        /\ pc = "returned" => free_calls = 1
C10_Witness ==
    /\ Standard /\ pc = "returned"
    /\ checker_raised = "decode"
    /\ case.points > 0
    /\ free_calls = 1

\* Once _interact_with_process of a standard grade is over.
StdCaptured ==
    /\ Standard
    /\ \/ pc \in {"populate", "check", "merge", "free", "returned"}
       \/ pc = "raised" /\ raised = "CheckerError"

C12_CapturePathsAgree ==
    (Standard /\ pc = "populate") =>
        LET seen == [proc_output |-> result.proc_output, error |-> error,
                     marks |-> ole_marks]
            limit == case.output_limit_length
        IN  /\ seen = MemfdCapture(written, err_written, limit)
            /\ seen = PipeCapture(written, err_written, limit, NewResult.proc_output)

\* Once grade has merged the checker outcome into the result.
Merged == pc \in {"free", "returned"}

\* C13 as stated: the judgment merged by a standard grade is AC exactly when
\* the result carried no failure flag after populate_result and the checker
\* passed, and WA in every other case; no flag of populate_result is cleared.
C13_JudgmentNeedsCleanResult ==
    (Standard /\ Merged) =>
        /\ judgment = "AC" <=> (populated.result_flag = {} /\ check.passed)
        /\ populated.result_flag \subseteq result.result_flag

\* C13, amended: the judgment merged by a standard grade is AC exactly when
\* the normalised checker outcome passed and WA otherwise, whatever flags
\* populate_result set; the merge adds the WA bit or nothing and clears no
\* flag, so the returned result is flag-free exactly when the result carried
\* no failure flag after populate_result and the checker passed.
C13_JudgmentFollowsChecker ==
    (Standard /\ Merged) =>
        /\ judgment = "AC" <=> check.passed
        /\ result.result_flag =
              populated.result_flag \cup (IF check.passed THEN {} ELSE {"WA"})
        /\ result.result_flag = {} <=> (populated.result_flag = {} /\ check.passed)
C13_Witness ==
    /\ Standard /\ pc = "returned"
    /\ case.run_on_error
    /\ "TLE" \in populated.result_flag
    /\ checker_calls = 1
    /\ check.passed
    /\ judgment = "AC"
    /\ result.result_flag = populated.result_flag

\* C14: when check_result hands grade a plain boolean, the merge treats True
\* as a passing outcome worth the full points of the case, with the AC
\* judgment and a flag-free result when the submission had no failure flag,
\* and False as a failing outcome worth 0 points with the WA judgment.
C14_BooleanNormalised ==
    [][(pc = "merge" /\ check.isbool) =>
          IF check.passed
            THEN /\ check'.passed
                 /\ result'.points = case.points
                 /\ judgment' = "AC"
                 /\ result.result_flag = {} => result'.result_flag = {}
            ELSE /\ ~check'.passed
                 /\ result'.points = 0
                 /\ judgment' = "WA"
                 /\ "WA" \in result'.result_flag]_vars
C14_Witness ==
    /\ Standard /\ pc = "returned"
    /\ checker_calls = 1 /\ checker_raised = "none"
    /\ checker_seen.out = Bool(TRUE)
    /\ case.points = MaxPoints
    /\ result.points = case.points
    /\ result.result_flag = {}
    /\ judgment = "AC"

\* C15: in an interactive grade the judge holds none of the four pipe
\* descriptors while it waits for either process: the submission-side ends
\* are closed once the submission is launched, the interactor-side ends once
\* the interactor is launched, both before the first wait.
C15_PipesClosedBeforeWaits ==
    Interactive =>
        /\ pc \in {"wait_submission", "wait_interactor"} => open_fds = {}
        /\ (pc = "interact" \/ InsideWith) => open_fds \cap SubmissionEnds = {}
C15_Witness ==
    /\ Interactive /\ pc = "wait_submission"
    /\ current_proc = "running"
    /\ interactor = "running"
    /\ open_fds = {}

\* The allowance C16 speaks of: the configured one, 2 seconds when none is.
ClaimedAllowance(a) == IF a = None THEN DefaultPreprocessing ELSE a

\* C16 as stated: for an unset, a zero and any configured allowance, the
\* ceiling the interactor is launched with is the problem time limit plus
\* the allowance (2 seconds when none is configured), and at least the
\* submission's ceiling plus the fixed 2-second margin.
C16_CeilingIsLimitPlusAllowance ==
    (Interactive /\ interactor # "none") =>
        /\ interactor_time_limit =
              config.time_limit + ClaimedAllowance(config.preprocessing_time)
        /\ interactor_time_limit >= config.time_limit + DefaultPreprocessing

\* C16, amended: the ceiling is the problem time limit plus the configured
\* allowance when that is non-zero, and plus 2 seconds when the allowance is
\* unset or zero; it is above the submission's ceiling by that amount, which
\* is the 2-second margin only when no smaller non-zero allowance is set.
C16_CeilingTreatsZeroAsUnset ==
    (Interactive /\ interactor # "none") =>
        LET a == config.preprocessing_time
            used == IF a = None \/ a = 0 THEN DefaultPreprocessing ELSE a
        IN  /\ interactor_time_limit = config.time_limit + used
            /\ interactor_time_limit > config.time_limit
            /\ used < DefaultPreprocessing =>
                  interactor_time_limit < config.time_limit + DefaultPreprocessing
C16_Witness ==
    /\ Interactive /\ interactor = "running"
    /\ config.preprocessing_time = 0
    /\ config.time_limit = 2
    /\ interactor_time_limit = 4

\* Control has left a grade call, by return or by an error.
LeftGrade == calls > 0 /\ pc \in {"returned", "raised"}

C18_EmptyFeedbackKeepsSandbox ==
    Merged =>
        /\ result.feedback =
              IF check.feedback = "" THEN populated.feedback ELSE check.feedback
        /\ result.extended_feedback =
              IF check.extended_feedback = "" THEN populated.extended_feedback
              ELSE check.extended_feedback
        /\ result.points = check.points
        /\ check.points = 0 => result.points = populated.points
C18_Witness ==
    /\ pc = "returned"
    /\ check.feedback = ""
    /\ check.extended_feedback # ""
    /\ populated.feedback = "sandbox"
    /\ result.feedback = "sandbox"
    /\ result.extended_feedback = check.extended_feedback

C20_FsizeFromCurrentCase ==
    (StdCaptured /\ config.memfd_output) =>
        fsize = Max(config.orig_fsize,
                    Max(case.output_limit_length + FsizeSlack, FsizeFloor))
C20_Witness ==
    /\ Standard /\ config.memfd_output
    /\ pc = "returned" /\ calls = 2
    /\ prev_fsize > FsizeFloor
    /\ fsize = FsizeFloor
====
